---- MODULE Spec2Model ----
(***************************************************************************)
(* eslint-plugin-react-google-translate: the rule engine.                  *)
(*                                                                         *)
(* A lint run is a state machine: the host framework holds a syntax tree   *)
(* and walks it depth-first in source order; for every node whose kind has *)
(* a registered listener it invokes that listener, which may call          *)
(* context.report.  One action models one listener invocation.             *)
(*                                                                         *)
(* A node is a record [type, name, vtype, value, kids]:                    *)
(*   type   the ESTree node type                                           *)
(*   name   Identifier.name, as a sequence of characters                   *)
(*   vtype  typeof node.value ("null" for the null literal, "undefined"    *)
(*          when the node kind carries no value)                           *)
(*   value  node.value as a sequence of characters                         *)
(*   kids   the sub-nodes, in source order                                 *)
(* A node is addressed by its path from the root (child indices); the      *)
(* parent link of the source is the path without its last index.           *)
(***************************************************************************)
EXTENDS Integers, Sequences, FiniteSets, TLC

\* tree      the syntax tree being linted
\* rule      the rule whose listeners the host runs
\* todo      the nodes the host has still to dispatch, in traversal order
\* reports   the diagnostics of the current run, in the order reported
\* fault     a listener threw
\* previous  the diagnostics of the earlier runs over the same tree
VARIABLES tree, rule, todo, reports, fault, previous

vars == <<tree, rule, todo, reports, fault, previous>>

\* ------------------------------------------------------------------ bounds

\* most children of the outer JSX element / fragment
MaxChildren == 3

\* most statements in a function body written as a statement list
MaxStmts == 2

\* deepest nesting of control-flow statements around a return
MaxNest == 2

\* most runs of a rule over one tree
MaxRuns == 2

\* ------------------------------------------------------- characters, names

WhitespaceChars == {" ", "\n", "\t"}

LowerCase == <<"a","b","c","d","e","f","g","h","i","j","k","l","m","n","o","p","q","r","s","t","u","v","w","x","y","z">>

UpperCase == <<"A","B","C","D","E","F","G","H","I","J","K","L","M","N","O","P","Q","R","S","T","U","V","W","X","Y","Z">>

\* String.prototype.toUpperCase on one character
ToUpperCase(c) ==
  IF \E i \in 1..Len(LowerCase) : LowerCase[i] = c
  THEN UpperCase[CHOOSE i \in 1..Len(LowerCase) : LowerCase[i] = c]
  ELSE c

RECURSIVE TrimStart(_)
TrimStart(s) ==
  IF s # <<>> /\ Head(s) \in WhitespaceChars THEN TrimStart(Tail(s)) ELSE s

RECURSIVE TrimEnd(_)
TrimEnd(s) ==
  IF s # <<>> /\ s[Len(s)] \in WhitespaceChars
  THEN TrimEnd(SubSeq(s, 1, Len(s) - 1))
  ELSE s

\* String.prototype.trim
Trim(s) == TrimEnd(TrimStart(s))

NameVal == <<"v", "a", "l">>

NameA == <<"a">>

NameB == <<"b">>

NameToLocaleString == <<"t", "o", "L", "o", "c", "a", "l", "e", "S", "t", "r", "i", "n", "g">>

NameToString == <<"t", "o", "S", "t", "r", "i", "n", "g">>

NameGetSomeValue == <<"g", "e", "t", "S", "o", "m", "e", "V", "a", "l", "u", "e">>

NameComp == <<"C", "o", "m", "p">>

NameCompLower == <<"c", "o", "m", "p">>

NameCompUnderscore == <<"_", "c", "o", "m", "p">>

NameInner == <<"I", "n", "n", "e", "r">>

NameInnerLower == <<"i", "n", "n", "e", "r">>

TextFoo == <<"f", "o", "o">>

TextBar == <<"b", "a", "r">>

TextHello == <<" ", "h", "e", "l", "l", "o", " ", "w", "o", "r", "l", "d">>

TextSpace == <<"\n", " ">>

TextTwo == <<"2">>

TextTrue == <<"t", "r", "u", "e">>

TextA == <<"a">>

TextX == <<"x">>

\* ---------------------------------------------------------- syntax nodes

Node(type, kids) ==
  [type |-> type, name |-> <<>>, vtype |-> "undefined", value |-> <<>>, kids |-> kids]

\* an absent (null / undefined) sub-node
None == Node("None", <<>>)

LiteralNode(vtype, value) ==
  [type |-> "Literal", name |-> <<>>, vtype |-> vtype, value |-> value, kids |-> <<>>]

JSXTextNode(value) ==
  [type |-> "JSXText", name |-> <<>>, vtype |-> "string", value |-> value, kids |-> <<>>]

IdentifierNode(name) ==
  [type |-> "Identifier", name |-> name, vtype |-> "undefined", value |-> <<>>, kids |-> <<>>]

TemplateLiteralNode == Node("TemplateLiteral", <<>>)

\* kids = <<object, property>>
MemberExpressionNode(object, property) == Node("MemberExpression", <<object, property>>)

\* kids = <<callee>> \o arguments
CallExpression(callee, arguments) == Node("CallExpression", <<callee>> \o arguments)

\* kids = <<test, consequent, alternate>>
ConditionalExpression(test, consequent, alternate) ==
  Node("ConditionalExpression", <<test, consequent, alternate>>)

\* kids = <<left, right>>
LogicalExpression(left, right) == Node("LogicalExpression", <<left, right>>)

\* kids = <<left, right>>
BinaryExpression(left, right) == Node("BinaryExpression", <<left, right>>)

\* kids = <<expression>>
JSXExpressionContainer(expression) == Node("JSXExpressionContainer", <<expression>>)

\* kids = children
JSXElement(children) == Node("JSXElement", children)

\* ------------------------------------------------------ tree addressing

RECURSIVE NodeIn(_, _)
NodeIn(n, path) ==
  IF path = <<>> THEN n ELSE NodeIn(n.kids[Head(path)], Tail(path))

\* the node of the linted tree at a path
NodeAt(path) == NodeIn(tree, path)

TypeAt(path) == NodeAt(path).type

\* node.parent is set for every node but the root
HasParent(path) == path # <<>>

Parent(path) == SubSeq(path, 1, Len(path) - 1)

\* node.children: only JSX elements and fragments carry the property
HasChildren(path) == TypeAt(path) \in {"JSXElement", "JSXFragment"}

ChildPaths(path) == {Append(path, i) : i \in 1..Len(NodeAt(path).kids)}

RECURSIVE SumWidths(_, _)
RECURSIVE SourceWidth(_)
\* number of source characters a node spans
SourceWidth(n) ==
  CASE n.type = "JSXText" -> Len(n.value)
    [] n.type = "Literal" -> IF n.vtype = "string" THEN Len(n.value) + 2
                             ELSE IF n.vtype = "null" THEN 4 ELSE Len(n.value)
    [] n.type = "Identifier" -> Len(n.name)
    [] n.type = "TemplateLiteral" -> 2
    [] n.type = "None" -> 0
    [] OTHER -> 2 + SumWidths(n.kids, Len(n.kids)) + Len(n.kids)

SumWidths(kids, k) ==
  IF k = 0 THEN 0 ELSE SumWidths(kids, k - 1) + SourceWidth(kids[k])

RECURSIVE Start(_)
\* node.range[0] (node.start): the node's start offset in the source text
Start(path) ==
  IF path = <<>> THEN 0
  ELSE Start(Parent(path)) + 2
       + SumWidths(NodeAt(Parent(path)).kids, path[Len(path)] - 1)
       + (path[Len(path)] - 1)

\* -------------------------------- no-conditional-text-nodes-with-siblings

\* isConditionallyRendered with the ConditionalExpression alternative left out
isConditionallyRendered_LogicalOnly(node) ==
  /\ HasParent(node)
  /\ TypeAt(Parent(node)) = "LogicalExpression"

isConditionallyRendered(node) ==
  /\ HasParent(node)
  /\ TypeAt(Parent(node)) \in {"ConditionalExpression", "LogicalExpression"}

isChildOfJSXEspressionContainer(node) ==
  HasParent(node) /\ TypeAt(Parent(node)) = "JSXExpressionContainer"

\* isChildOfJSXElement taking a fragment for an element
isChildOfJSXElement_OrFragment(node) ==
  HasParent(node) /\ TypeAt(Parent(node)) \in {"JSXElement", "JSXFragment"}

isChildOfJSXElement(node) ==
  HasParent(node) /\ TypeAt(Parent(node)) = "JSXElement"

\* isWhitespace with the Literal alternative left out
isWhitespace_JSXTextOnly(node) ==
  /\ TypeAt(node) = "JSXText"
  /\ NodeAt(node).vtype = "string"
  /\ NodeAt(node).value # <<>>
  /\ Trim(NodeAt(node).value) = <<>>

isWhitespace(node) ==
  \/ /\ TypeAt(node) = "Literal"
     /\ NodeAt(node).vtype = "string"
     /\ NodeAt(node).value # <<>>
     /\ Trim(NodeAt(node).value) = <<>>
  \/ /\ TypeAt(node) = "JSXText"
     /\ NodeAt(node).vtype = "string"
     /\ NodeAt(node).value # <<>>
     /\ Trim(NodeAt(node).value) = <<>>

\* hasSiblings counting whitespace siblings too
hasSiblings_CountOnly(node) ==
  /\ HasParent(node)
  /\ HasChildren(Parent(node))
  /\ Len(NodeAt(Parent(node)).kids) > 1

hasSiblings(node) ==
  /\ HasParent(node)
  /\ HasChildren(Parent(node))
  /\ Len(NodeAt(Parent(node)).kids) > 1
  /\ \E child \in ChildPaths(Parent(node)) : child # node /\ ~isWhitespace(child)

\* conditionalSiblingsPreceedNode without the comparison of start offsets
conditionalSiblingsPreceedNode_AnyOrder(node) ==
  /\ HasParent(node)
  /\ HasChildren(Parent(node))
  /\ \E child \in ChildPaths(Parent(node)) :
       /\ ~isWhitespace(child)
       /\ TypeAt(child) = "JSXExpressionContainer"
       /\ NodeAt(child).kids[1].type \in {"ConditionalExpression", "LogicalExpression"}

conditionalSiblingsPreceedNode(node) ==
  /\ HasParent(node)
  /\ HasChildren(Parent(node))
  /\ \E child \in ChildPaths(Parent(node)) :
       /\ Start(child) < Start(node)
       /\ ~isWhitespace(child)
       /\ TypeAt(child) = "JSXExpressionContainer"
       /\ NodeAt(child).kids[1].type # "None"
       /\ NodeAt(child).kids[1].type \in {"ConditionalExpression", "LogicalExpression"}

RECURSIVE functionWasCalled(_)
\* 'ReturnExpression' is no node type of the parser: that exit is never taken
functionWasCalled(node) ==
  IF ~HasParent(node) THEN FALSE
  ELSE IF TypeAt(Parent(node)) = "CallExpression" THEN TRUE
  ELSE IF TypeAt(Parent(node)) = "ReturnExpression" THEN FALSE
  ELSE functionWasCalled(Parent(node))

\* isCondition without the ConditionalExpression alternative
isCondition_LogicalOnly(node) ==
  IF HasParent(node) /\ TypeAt(Parent(node)) = "LogicalExpression"
  THEN node = Append(Parent(node), 1)
  ELSE FALSE

isCondition(node) ==
  IF HasParent(node) /\ TypeAt(Parent(node)) = "ConditionalExpression"
  THEN node = Append(Parent(node), 1)
  ELSE IF HasParent(node) /\ TypeAt(Parent(node)) = "LogicalExpression"
  THEN node = Append(Parent(node), 1)
  ELSE FALSE

isBinaryExpression(node) ==
  IF HasParent(node) /\ TypeAt(Parent(node)) = "BinaryExpression"
  THEN isCondition(Parent(node))
  ELSE FALSE

RECURSIVE getCallExpression(_)
\* the nearest enclosing CallExpression, as <<path>>, or <<>> for null
getCallExpression(node) ==
  IF ~HasParent(node) THEN <<>>
  ELSE IF TypeAt(Parent(node)) = "CallExpression" THEN <<Parent(node)>>
  ELSE getCallExpression(Parent(node))

\* ------------------------------------------------------------ the host

CondRule == "no-conditional-text-nodes-with-siblings"

\* node types the rule registers a listener for
Listeners(r) ==
  IF r = CondRule
  THEN {"Literal", "TemplateLiteral", "JSXText", "MemberExpression", "Identifier"}
  ELSE {"FunctionDeclaration"}

RECURSIVE Preorder(_, _, _)
RECURSIVE PreorderKids(_, _, _, _)
\* the paths of the nodes under n (at path) with a type in types, in the
\* depth-first source order of the host's traversal
Preorder(n, path, types) ==
  (IF n.type \in types THEN <<path>> ELSE <<>>) \o PreorderKids(n, path, types, 1)

PreorderKids(n, path, types, i) ==
  IF i > Len(n.kids) THEN <<>>
  ELSE Preorder(n.kids[i], Append(path, i), types) \o PreorderKids(n, path, types, i + 1)

\* context.report({ node, messageId })
Report(node, messageId) == [node |-> node, messageId |-> messageId]

\* the host invokes the listener of the next node of the traversal
Visiting(r, type) ==
  /\ rule = r
  /\ ~fault
  /\ todo # <<>>
  /\ TypeAt(Head(todo)) = type

\* ------------------------------------------------ listeners of CondRule

\* the Literal listener with a set of nodes already reported that outlives the
\* run: a node reported by an earlier run is not reported again
Literal_ReportedOnce ==
  /\ Visiting(CondRule, "Literal")
  /\ LET node == Head(todo) IN
       reports' =
         IF /\ ~isWhitespace(node)
            /\ NodeAt(node).vtype # "null"
            /\ NodeAt(node).vtype # "boolean"
            /\ isConditionallyRendered(node)
            /\ isChildOfJSXEspressionContainer(Parent(node))
            /\ HasParent(Parent(node))
            /\ isChildOfJSXElement(Parent(Parent(node)))
            /\ hasSiblings(Parent(Parent(node)))
            /\ \A k \in 1..Len(previous) : \A i \in 1..Len(previous[k]) :
                 previous[k][i].node # node
         THEN Append(reports, Report(node, "conditional-text-node"))
         ELSE reports
  /\ todo' = Tail(todo)
  /\ UNCHANGED <<tree, rule, fault, previous>>

Literal ==
  /\ Visiting(CondRule, "Literal")
  /\ LET node == Head(todo) IN
       reports' =
         IF /\ ~isWhitespace(node)
            /\ NodeAt(node).vtype # "null"
            /\ NodeAt(node).vtype # "boolean"
            /\ isConditionallyRendered(node)
            /\ isChildOfJSXEspressionContainer(Parent(node))
            /\ HasParent(Parent(node))
            /\ isChildOfJSXElement(Parent(Parent(node)))
            /\ hasSiblings(Parent(Parent(node)))
         THEN Append(reports, Report(node, "conditional-text-node"))
         ELSE reports
  /\ todo' = Tail(todo)
  /\ UNCHANGED <<tree, rule, fault, previous>>

\* the TemplateLiteral listener without the tests of what lies above the
\* node's parent
TemplateLiteral_AnyConditional ==
  /\ Visiting(CondRule, "TemplateLiteral")
  /\ LET node == Head(todo) IN
       reports' =
         IF ~isWhitespace(node) /\ isConditionallyRendered(node)
         THEN Append(reports, Report(node, "conditional-text-node"))
         ELSE reports
  /\ todo' = Tail(todo)
  /\ UNCHANGED <<tree, rule, fault, previous>>

TemplateLiteral ==
  /\ Visiting(CondRule, "TemplateLiteral")
  /\ LET node == Head(todo) IN
       reports' =
         IF /\ ~isWhitespace(node)
            /\ isConditionallyRendered(node)
            /\ isChildOfJSXEspressionContainer(Parent(node))
            /\ HasParent(Parent(node))
            /\ isChildOfJSXElement(Parent(Parent(node)))
            /\ hasSiblings(Parent(Parent(node)))
         THEN Append(reports, Report(node, "conditional-text-node"))
         ELSE reports
  /\ todo' = Tail(todo)
  /\ UNCHANGED <<tree, rule, fault, previous>>

\* the JSXText listener reading what the listeners invoked before it have
\* reported: static text is reported only once a diagnostic has been made
JSXText_AfterAnotherReport ==
  /\ Visiting(CondRule, "JSXText")
  /\ LET node == Head(todo) IN
       reports' =
         IF /\ ~isWhitespace(node)
            /\ hasSiblings(node)
            /\ conditionalSiblingsPreceedNode(node)
            /\ reports # <<>>
         THEN Append(reports, Report(node, "text-node-preceeded-by-conditional"))
         ELSE reports
  /\ todo' = Tail(todo)
  /\ UNCHANGED <<tree, rule, fault, previous>>

JSXText ==
  /\ Visiting(CondRule, "JSXText")
  /\ LET node == Head(todo) IN
       reports' =
         IF /\ ~isWhitespace(node)
            /\ hasSiblings(node)
            /\ conditionalSiblingsPreceedNode(node)
         THEN Append(reports, Report(node, "text-node-preceeded-by-conditional"))
         ELSE reports
  /\ todo' = Tail(todo)
  /\ UNCHANGED <<tree, rule, fault, previous>>

MemberExpression ==
  /\ Visiting(CondRule, "MemberExpression")
  /\ LET node == Head(todo) IN
       reports' =
         IF isCondition(node) \/ isBinaryExpression(node)
         THEN reports
         ELSE IF /\ isConditionallyRendered(node)
                 /\ isChildOfJSXEspressionContainer(Parent(node))
                 /\ HasParent(Parent(node))
                 /\ isChildOfJSXElement(Parent(Parent(node)))
                 /\ hasSiblings(Parent(Parent(node)))
         THEN Append(reports, Report(node, "conditional-text-node"))
         ELSE reports
  /\ todo' = Tail(todo)
  /\ UNCHANGED <<tree, rule, fault, previous>>

Identifier ==
  /\ Visiting(CondRule, "Identifier")
  /\ LET node == Head(todo)
         callExpression == getCallExpression(node)
     IN
       reports' =
         IF /\ NodeAt(node).name = NameToLocaleString
            /\ functionWasCalled(node)
            /\ NodeAt(node).name \in {NameToLocaleString, NameToString}
            /\ functionWasCalled(node)
            /\ callExpression # <<>>
            /\ isConditionallyRendered(callExpression[1])
            /\ HasParent(callExpression[1])
            /\ isChildOfJSXEspressionContainer(Parent(callExpression[1]))
            /\ HasParent(Parent(callExpression[1]))
            /\ isChildOfJSXElement(Parent(Parent(callExpression[1])))
            /\ hasSiblings(Parent(Parent(callExpression[1])))
         THEN Append(reports, Report(callExpression[1], "conditional-text-node"))
         ELSE reports
  /\ todo' = Tail(todo)
  /\ UNCHANGED <<tree, rule, fault, previous>>

\* ------------------------------------------------- linted JSX (inputs)

Val == IdentifierNode(NameVal)

\* val.a
ValA == MemberExpressionNode(Val, IdentifierNode(NameA))

\* val.a.b
ValAB == MemberExpressionNode(ValA, IdentifierNode(NameB))

\* val.toLocaleString()
ValToLocaleString ==
  CallExpression(MemberExpressionNode(Val, IdentifierNode(NameToLocaleString)), <<>>)

\* val.toString()
ValToString ==
  CallExpression(MemberExpressionNode(Val, IdentifierNode(NameToString)), <<>>)

\* getSomeValue()
GetSomeValue == CallExpression(IdentifierNode(NameGetSomeValue), <<>>)

\* getSomeValue(val.toLocaleString)
GetSomeValueOfMethod ==
  CallExpression(IdentifierNode(NameGetSomeValue),
                 <<MemberExpressionNode(Val, IdentifierNode(NameToLocaleString))>>)

\* val.toLocaleString(toLocaleString)
ValToLocaleStringTwice ==
  CallExpression(MemberExpressionNode(Val, IdentifierNode(NameToLocaleString)),
                 <<IdentifierNode(NameToLocaleString)>>)

Foo == LiteralNode("string", TextFoo)

Bar == LiteralNode("string", TextBar)

\* <span>bar</span>
Span == JSXElement(<<JSXTextNode(TextBar)>>)

\* <span>{val ? 'foo' : 'bar'} hello</span>
SpanWithSlot ==
  JSXElement(<<JSXExpressionContainer(ConditionalExpression(Val, Foo, Bar)),
               JSXTextNode(TextHello)>>)

\* expressions without a conditional in them
PlainValues ==
  { Foo,
    LiteralNode("string", TextSpace),
    LiteralNode("string", <<>>),
    LiteralNode("number", TextTwo),
    LiteralNode("null", <<>>),
    LiteralNode("boolean", TextTrue),
    TemplateLiteralNode,
    Val, ValA, ValAB,
    ValToLocaleString, ValToString, ValToLocaleStringTwice,
    GetSomeValue, GetSomeValueOfMethod,
    Span, SpanWithSlot }

\* a conditional nested in a branch of the slot's conditional
NestedValues ==
  { ConditionalExpression(Val, Foo, ValA),
    ConditionalExpression(Val, ValToLocaleString, TemplateLiteralNode),
    LogicalExpression(Val, Foo) }

BranchValues == PlainValues \cup NestedValues

\* expressions in the test / left position
TestValues ==
  { Val, ValA,
    BinaryExpression(ValA, LiteralNode("string", TextX)),
    Foo, TemplateLiteralNode, ValToLocaleString }

\* the expression of the slot under study
SlotExpressions ==
  {Foo, TemplateLiteralNode, Val, ValA, ValToLocaleString}
  \cup {ConditionalExpression(t, Span, Span) : t \in TestValues}
  \cup {ConditionalExpression(Val, b, a) : b \in BranchValues, a \in {Span, Bar}}
  \cup {ConditionalExpression(Val, Span, b) : b \in BranchValues}
  \cup {LogicalExpression(t, Span) : t \in TestValues}
  \cup {LogicalExpression(Val, b) : b \in BranchValues}

\* the other children of the outer element
OtherChildren ==
  { JSXTextNode(TextHello), JSXTextNode(TextSpace), JSXElement(<<>>),
    JSXExpressionContainer(Val),
    JSXExpressionContainer(LogicalExpression(Val, JSXElement(<<>>))) }

\* a child list of n entries: the slot under study at position i, holding e,
\* among the other children o
ChildList(n, i, e, o) ==
  [j \in 1..n |-> IF j = i THEN JSXExpressionContainer(e) ELSE o[j]]

\* ----------------------------------------------------- the specification

InitCond ==
  /\ \E n \in 1..MaxChildren, t \in {"JSXElement", "JSXFragment"} :
       \E i \in 1..n, e \in SlotExpressions, o \in [1..n -> OtherChildren] :
         /\ o[i] = JSXElement(<<>>)
         /\ tree = Node(t, ChildList(n, i, e, o))
  /\ rule = CondRule
  /\ previous = <<>>
  /\ todo = Preorder(tree, <<>>, Listeners(rule))
  /\ reports = <<>>
  /\ fault = FALSE

NextCond ==
  \/ Literal
  \/ TemplateLiteral
  \/ JSXText
  \/ MemberExpression
  \/ Identifier

SpecCond == InitCond /\ [][NextCond]_vars

\* the lint run is over
Done == todo = <<>>

\* the nodes reported by the run so far
Reported(messageId) ==
  {reports[i].node : i \in {j \in 1..Len(reports) : reports[j].messageId = messageId}}

\* --------------------------------------------------------- statements

\* kids = <<argument>> (None for a bare return)
ReturnStatement(argument) == Node("ReturnStatement", <<argument>>)

\* kids = body
BlockStatement(body) == Node("BlockStatement", body)

\* kids = <<test, consequent, alternate>> (alternate None when there is no else)
IfStatement(test, consequent, alternate) ==
  Node("IfStatement", <<test, consequent, alternate>>)

LoopTypes ==
  {"ForOfStatement", "ForInStatement", "ForStatement", "WhileStatement", "DoWhileStatement"}

\* a loop statement of the given type; kids = <<body>>
LoopStatement(type, body) == Node(type, <<body>>)

\* kids = consequent
SwitchCase(consequent) == Node("SwitchCase", consequent)

\* kids = cases
SwitchStatement(cases) == Node("SwitchStatement", cases)

\* kids = <<body>>
CatchClause(body) == Node("CatchClause", <<body>>)

\* kids = <<block, handler, finalizer>> (handler, finalizer None when absent)
TryStatement(block, handler, finalizer) ==
  Node("TryStatement", <<block, handler, finalizer>>)

\* kids = <<body>>
LabeledStatement(body) == Node("LabeledStatement", <<body>>)

\* kids = <<expression>>
ExpressionStatement(expression) == Node("ExpressionStatement", <<expression>>)

\* const f = () => body;  kids = <<ArrowFunctionExpression>>
VariableDeclaration(body) ==
  Node("VariableDeclaration", <<Node("ArrowFunctionExpression", <<body>>)>>)

\* kids = <<id, body>> (id None for an anonymous declaration)
FunctionDeclarationNode(id, body) == Node("FunctionDeclaration", <<id, body>>)

\* ------------------------------------------------- the return-value rules

\* src/unnamed/part_000: 'return-value-is-text-node', first version
RulePart000 == "part_000"

\* src/unnamed/part_001: 'return-value-is-text-node'
RulePart001 == "part_001"

\* src/unnamed/part_003: 'react-component-returning-text-node', first draft
RulePart003 == "part_003"

\* src/unnamed/part_004: 'react-component-returning-text-node', second draft
RulePart004 == "part_004"

\* src/lib/rules/no-text-nodes-returned-by-components.js
RuleNoTextNodes == "no-text-nodes-returned-by-components"

\* src/lib/rules/react-components-return-jsx.js
RuleReturnJsx == "react-components-return-jsx"

ReturnRules ==
  {RulePart000, RulePart001, RulePart003, RulePart004, RuleNoTextNodes, RuleReturnJsx}

\* the messageId each rule reports with
MessageId(r) ==
  CASE r \in {RulePart000, RulePart001} -> "return-value-is-text-node"
    [] r \in {RulePart003, RulePart004, RuleNoTextNodes} -> "react-component-returning-text-node"
    [] r = RuleReturnJsx -> "return-value-is-not-jsx"

\* node && node.id && node.id.name: <<name>>, or <<>> when there is none
getFunctionName(node) ==
  IF NodeAt(node).kids[1].type = "None" THEN <<>> ELSE <<NodeAt(node).kids[1].name>>

\* name && typeof name === 'string' && name[0] === name[0].toUpperCase()
getIsCapitalised(name) ==
  /\ name # <<>>
  /\ name[1] # <<>>
  /\ name[1][1] = ToUpperCase(name[1][1])

\* typeof functionName === 'string' && isCapitalised
isFunctionComponent(node) ==
  getFunctionName(node) # <<>> /\ getIsCapitalised(getFunctionName(node))

\* the argument of the ReturnStatement at path
Argument(path) == NodeAt(path).kids[1]

\* part_000, lines 35-41: the TemplateLiteral and 'number' alternatives are
\* tests of node.argument.type under node.argument.type === 'Literal'
ReportsReturn_part000(path) ==
  /\ Argument(path).type # "None"
  /\ Argument(path).type = "Literal"
  /\ \/ Argument(path).vtype = "string"
     \/ Argument(path).type = "TemplateLiteral"
     \/ Argument(path).type = "number"

\* part_001, lines 35-41
ReportsReturn_part001(path) ==
  /\ Argument(path).type # "None"
  /\ \/ Argument(path).type = "TemplateLiteral"
     \/ /\ Argument(path).type = "Literal"
        /\ Argument(path).vtype \in {"string", "number"}

\* no-text-nodes-returned-by-components.js, lines 35-39
ReportsReturn_noTextNodes(path) ==
  /\ Argument(path).type # "None"
  /\ Argument(path).type = "Literal"
  /\ Argument(path).vtype = "string"

\* the report condition of react-components-return-jsx without the test of the
\* argument's type
ReportsReturn_returnJsx_AnyArgument(path) ==
  Argument(path).type # "None"

\* react-components-return-jsx.js, line 35
ReportsReturn_returnJsx(path) ==
  /\ Argument(path).type # "None"
  /\ Argument(path).type # "JSXElement"

\* whether the rule's walker reports the ReturnStatement at path
\* (part_004 reports every ReturnStatement it reaches)
ReportsReturn(r, path) ==
  CASE r = RulePart000 -> ReportsReturn_part000(path)
    [] r = RulePart001 -> ReportsReturn_part001(path)
    [] r = RulePart004 -> TRUE
    [] r = RuleNoTextNodes -> ReportsReturn_noTextNodes(path)
    [] r = RuleReturnJsx -> ReportsReturn_returnJsx(path)

\* the outcome of a walk: the ReturnStatements reported, in order, and whether
\* the walk threw
Outcome(rep, err) == [rep |-> rep, err |-> err]

RECURSIVE findReturnStatements(_, _)
RECURSIVE WalkEach(_, _, _)
RECURSIVE WalkCases(_, _, _)

\* findReturnStatements / findAndReportReturnStatements / getReturnStatement
\* (part_004) of rule r on the node at path
findReturnStatements(r, path) ==
  LET node == NodeAt(path)
      own == IF node.type = "ReturnStatement" /\ ReportsReturn(r, path)
             THEN <<path>> ELSE <<>>
      Then(a, b) == IF a.err THEN a ELSE Outcome(a.rep \o b.rep, b.err)
  IN
    IF node.type = "None" THEN Outcome(<<>>, TRUE)
    ELSE IF node.type = "BlockStatement"
      THEN WalkEach(r, path, 1)
    ELSE IF node.type = "IfStatement"
      THEN Then(findReturnStatements(r, Append(path, 2)),
                IF node.kids[3].type # "None"
                THEN findReturnStatements(r, Append(path, 3))
                ELSE Outcome(<<>>, FALSE))
    ELSE IF node.type \in LoopTypes
      THEN findReturnStatements(r, Append(path, 1))
    ELSE IF node.type = "SwitchStatement"
      THEN WalkCases(r, path, 1)
    ELSE IF node.type = "TryStatement"
      THEN Then(findReturnStatements(r, Append(path, 1)),
           Then(IF node.kids[2].type # "None"
                THEN findReturnStatements(r, Append(Append(path, 2), 1))
                ELSE Outcome(<<>>, FALSE),
                IF node.kids[3].type # "None"
                THEN findReturnStatements(r, Append(path, 3))
                ELSE Outcome(<<>>, FALSE)))
    ELSE Outcome(own, FALSE)

\* for (const child of children) findReturnStatements(child), from the i-th on
WalkEach(r, path, i) ==
  IF i > Len(NodeAt(path).kids) THEN Outcome(<<>>, FALSE)
  ELSE LET a == findReturnStatements(r, Append(path, i)) IN
         IF a.err THEN a
         ELSE LET b == WalkEach(r, path, i + 1) IN Outcome(a.rep \o b.rep, b.err)

\* the walk of a switch that stops after its first case
WalkCases_FirstCaseOnly(r, path, i) ==
  IF NodeAt(path).kids = <<>> THEN Outcome(<<>>, FALSE)
  ELSE WalkEach(r, Append(path, 1), 1)

\* for (const switchCase of node.cases) for (const consequent of
\* switchCase.consequent) findReturnStatements(consequent), from the i-th case on
WalkCases(r, path, i) ==
  IF i > Len(NodeAt(path).kids) THEN Outcome(<<>>, FALSE)
  ELSE LET a == WalkEach(r, Append(path, i), 1) IN
         IF a.err THEN a
         ELSE LET b == WalkCases(r, path, i + 1) IN Outcome(a.rep \o b.rep, b.err)

\* context.report for each ReturnStatement of a walk, in order
ReportAll(paths, messageId) == [i \in 1..Len(paths) |-> Report(paths[i], messageId)]

\* the body of the FunctionDeclaration listener that part_000, part_001,
\* no-text-nodes-returned-by-components and react-components-return-jsx share:
\* return on a missing body, return unless the function is a component, walk
FunctionDeclaration(r) ==
  /\ LET node == Head(todo)
         walk == findReturnStatements(r, Append(node, 2))
     IN
       IF NodeAt(node).kids[2].type = "None" \/ ~isFunctionComponent(node)
       THEN UNCHANGED <<reports, fault>>
       ELSE /\ reports' = reports \o ReportAll(walk.rep, MessageId(r))
            /\ fault' = walk.err
  /\ todo' = Tail(todo)
  /\ UNCHANGED <<tree, rule, previous>>

FunctionDeclaration_part000 ==
  /\ Visiting(RulePart000, "FunctionDeclaration")
  /\ FunctionDeclaration(RulePart000)

FunctionDeclaration_part001 ==
  /\ Visiting(RulePart001, "FunctionDeclaration")
  /\ FunctionDeclaration(RulePart001)

FunctionDeclaration_noTextNodes ==
  /\ Visiting(RuleNoTextNodes, "FunctionDeclaration")
  /\ FunctionDeclaration(RuleNoTextNodes)

FunctionDeclaration_returnJsx ==
  /\ Visiting(RuleReturnJsx, "FunctionDeclaration")
  /\ FunctionDeclaration(RuleReturnJsx)

RECURSIVE getReturnStatement_part003(_)
\* getReturnStatement of part_003: the first ReturnStatement found (as rep), or
\* none; node.body.statements is undefined on a BlockStatement, whose body is
\* the statement array itself, so a block yields none
getReturnStatement_part003(path) ==
  LET node == NodeAt(path)
      Or(a, b) == IF a.err \/ a.rep # <<>> THEN a ELSE b
      Absent == Outcome(<<>>, FALSE)
  IN
    IF node.type = "None" THEN Outcome(<<>>, TRUE)
    ELSE IF node.type = "ReturnStatement" THEN Outcome(<<path>>, FALSE)
    ELSE IF node.type = "BlockStatement" THEN Absent
    ELSE IF node.type = "IfStatement"
      THEN Or(getReturnStatement_part003(Append(path, 2)),
              IF node.kids[3].type # "None"
              THEN getReturnStatement_part003(Append(path, 3)) ELSE Absent)
    ELSE IF node.type \in LoopTypes
      THEN getReturnStatement_part003(Append(path, 1))
    ELSE IF node.type = "SwitchStatement"
      THEN IF \E c \in 1..Len(node.kids) : node.kids[c].kids # <<>>
           THEN LET c == CHOOSE c \in 1..Len(node.kids) :
                           /\ node.kids[c].kids # <<>>
                           /\ \A d \in 1..(c - 1) : node.kids[d].kids = <<>>
                IN getReturnStatement_part003(Append(Append(path, c), 1))
           ELSE Absent
    ELSE IF node.type = "TryStatement"
      THEN Or(getReturnStatement_part003(Append(path, 1)),
           Or(IF node.kids[2].type # "None"
              THEN getReturnStatement_part003(Append(Append(path, 2), 1)) ELSE Absent,
              IF node.kids[3].type # "None"
              THEN getReturnStatement_part003(Append(path, 3)) ELSE Absent))
    ELSE Absent

\* FunctionDeclaration listener of part_003: the function itself is reported
\* when it is a component; the return statement found is only logged
FunctionDeclaration_part003 ==
  /\ Visiting(RulePart003, "FunctionDeclaration")
  /\ LET node == Head(todo)
         returnStatement == getReturnStatement_part003(Append(node, 2))
     IN
       IF NodeAt(node).kids[2].type = "None"
       THEN UNCHANGED <<reports, fault>>
       ELSE /\ fault' = returnStatement.err
            /\ reports' =
                 IF ~returnStatement.err /\ isFunctionComponent(node)
                 THEN Append(reports, Report(node, MessageId(RulePart003)))
                 ELSE reports
  /\ todo' = Tail(todo)
  /\ UNCHANGED <<tree, rule, previous>>

\* FunctionDeclaration listener of part_004: getReturnStatement reports every
\* ReturnStatement it reaches, before the name is looked at; then the function
\* itself is reported when it is a component
FunctionDeclaration_part004 ==
  /\ Visiting(RulePart004, "FunctionDeclaration")
  /\ LET node == Head(todo)
         walk == findReturnStatements(RulePart004, Append(node, 2))
     IN
       IF NodeAt(node).kids[2].type = "None"
       THEN UNCHANGED <<reports, fault>>
       ELSE /\ fault' = walk.err
            /\ reports' =
                 reports \o ReportAll(walk.rep, MessageId(RulePart004))
                 \o (IF ~walk.err /\ isFunctionComponent(node)
                     THEN <<Report(node, MessageId(RulePart004))>>
                     ELSE <<>>)
  /\ todo' = Tail(todo)
  /\ UNCHANGED <<tree, rule, previous>>

\* -------------------------------------------- linted functions (inputs)

\* what a component returns
ReturnArguments ==
  { None,
    LiteralNode("string", TextA),
    LiteralNode("string", <<>>),
    LiteralNode("number", TextTwo),
    LiteralNode("null", <<>>),
    LiteralNode("boolean", TextTrue),
    TemplateLiteralNode,
    JSXElement(<<>>),
    Node("JSXFragment", <<>>),
    Val,
    GetSomeValue,
    ConditionalExpression(Val, Foo, Bar) }

ReturnA == ReturnStatement(LiteralNode("string", TextA))

ReturnSpan == ReturnStatement(JSXElement(<<>>))

\* doSomething();
Other == ExpressionStatement(GetSomeValue)

\* if (x) { return 'a'; } else { return <span/>; }
IfElseExample ==
  IfStatement(Val, BlockStatement(<<ReturnA>>), BlockStatement(<<ReturnSpan>>))

WrapperKinds ==
  LoopTypes \cup
  { "BlockStatement", "IfConsequent", "IfAlternate", "SwitchStatement",
    "TryBlock", "TryHandler", "TryFinalizer", "LabeledStatement",
    "VariableDeclaration", "FunctionUpper", "FunctionLower" }

\* the statement s one level deeper, under a statement of the given kind
Wrap(kind, s) ==
  CASE kind \in LoopTypes -> LoopStatement(kind, s)
    [] kind = "BlockStatement" -> BlockStatement(<<Other, s>>)
    [] kind = "IfConsequent" -> IfStatement(Val, s, None)
    [] kind = "IfAlternate" -> IfStatement(Val, Other, s)
    [] kind = "SwitchStatement" ->
         SwitchStatement(<<SwitchCase(<<Other>>), SwitchCase(<<Other, s>>)>>)
    [] kind = "TryBlock" ->
         TryStatement(BlockStatement(<<s>>), CatchClause(BlockStatement(<<>>)), None)
    [] kind = "TryHandler" ->
         TryStatement(BlockStatement(<<>>), CatchClause(BlockStatement(<<s>>)), None)
    [] kind = "TryFinalizer" ->
         TryStatement(BlockStatement(<<>>), None, BlockStatement(<<s>>))
    [] kind = "LabeledStatement" -> LabeledStatement(s)
    [] kind = "VariableDeclaration" -> VariableDeclaration(BlockStatement(<<s>>))
    [] kind = "FunctionUpper" ->
         FunctionDeclarationNode(IdentifierNode(NameInner), BlockStatement(<<s>>))
    [] kind = "FunctionLower" ->
         FunctionDeclarationNode(IdentifierNode(NameInnerLower), BlockStatement(<<s>>))

RECURSIVE Nested(_)
\* return 'a'; under d statements, one inside the other
Nested(d) ==
  IF d = 0 THEN {ReturnA}
  ELSE {Wrap(kind, s) : kind \in WrapperKinds, s \in Nested(d - 1)}

\* the statements of a body written as a list
ListedStatements ==
  { ReturnA, ReturnSpan, ReturnStatement(None),
    ReturnStatement(LiteralNode("number", TextTwo)), Other, IfElseExample }

\* the names of the function under study (None: an anonymous declaration)
FunctionIds ==
  { IdentifierNode(NameComp), IdentifierNode(NameCompLower),
    IdentifierNode(NameCompUnderscore), None }

\* ----------------------------------------------------- the specification

InitRet ==
  /\ \E id \in FunctionIds :
       \/ \E a \in ReturnArguments :
            tree = FunctionDeclarationNode(id, BlockStatement(<<ReturnStatement(a)>>))
       \/ \E d \in 1..MaxNest : \E s \in Nested(d) :
            tree = FunctionDeclarationNode(id, BlockStatement(<<s>>))
       \/ \E n \in 0..MaxStmts : \E body \in [1..n -> ListedStatements] :
            tree = FunctionDeclarationNode(id, BlockStatement(body))
  /\ rule \in ReturnRules
  /\ previous = <<>>
  /\ todo = Preorder(tree, <<>>, Listeners(rule))
  /\ reports = <<>>
  /\ fault = FALSE

NextRet ==
  \/ FunctionDeclaration_part000
  \/ FunctionDeclaration_part001
  \/ FunctionDeclaration_part003
  \/ FunctionDeclaration_part004
  \/ FunctionDeclaration_noTextNodes
  \/ FunctionDeclaration_returnJsx

SpecRet == InitRet /\ [][NextRet]_vars

Init == InitCond \/ InitRet

Next == NextCond \/ NextRet

Spec == Init /\ [][Next]_vars

\* the host lints the same, unchanged tree again: create(context) is called
\* anew, with a context whose report list is empty; the rule modules keep no
\* variable outside the listeners' own locals, so nothing else carries over
Rerun ==
  /\ todo = <<>>
  /\ ~fault
  /\ Len(previous) < MaxRuns - 1
  /\ previous' = Append(previous, reports)
  /\ todo' = Preorder(tree, <<>>, Listeners(rule))
  /\ reports' = <<>>
  /\ UNCHANGED <<tree, rule, fault>>

NextAgain == Next \/ Rerun

\* runs of a rule, one after the other, over one tree
SpecAgain == Init /\ [][NextAgain]_vars

\* ----------------------------------- trees with sub-nodes left out (inputs)

\* statements one of whose expected sub-nodes is absent (an absent statement
\* list of a block reads as the empty list: node.body || [])
IncompleteStatements ==
  { ReturnStatement(None),
    BlockStatement(<<>>),
    IfStatement(Val, ReturnA, None),
    IfStatement(Val, None, None),
    IfStatement(Val, None, ReturnA),
    TryStatement(BlockStatement(<<ReturnA>>), None, None),
    TryStatement(None, None, None),
    TryStatement(BlockStatement(<<ReturnA>>), CatchClause(None), None) }
  \cup {LoopStatement(t, None) : t \in LoopTypes}

\* the kinds of statement around an incomplete one
IncompleteWrappers ==
  { "BlockStatement", "IfConsequent", "IfAlternate", "WhileStatement",
    "SwitchStatement", "TryBlock", "TryHandler", "TryFinalizer", "LabeledStatement" }

\* a function whose tree lacks an expected sub-node: its body, or a sub-node
\* of a statement of the body, alone, after return 'a', or wrapped
InitIncomplete ==
  /\ \E id \in FunctionIds :
       \/ tree = FunctionDeclarationNode(id, None)
       \/ \E s \in IncompleteStatements :
            \/ tree = FunctionDeclarationNode(id, BlockStatement(<<s>>))
            \/ tree = FunctionDeclarationNode(id, BlockStatement(<<ReturnA, s>>))
            \/ \E kind \in IncompleteWrappers :
                 tree = FunctionDeclarationNode(id, BlockStatement(<<Wrap(kind, s)>>))
  /\ rule \in ReturnRules
  /\ previous = <<>>
  /\ todo = Preorder(tree, <<>>, Listeners(rule))
  /\ reports = <<>>
  /\ fault = FALSE

\* the return-value rules on trees with sub-nodes left out
SpecIncomplete == InitIncomplete /\ [][NextRet]_vars

\* ------------------------------------------------ any order of dispatch

\* the nodes still to dispatch stand in the host's traversal order
InTraversalOrder ==
  LET order == Preorder(tree, <<>>, Listeners(rule))
      Waiting(path) == \E i \in 1..Len(todo) : todo[i] = path
  IN SelectSeq(order, Waiting) = todo

\* in a run after the first, which follows the host's traversal, the host
\* dispatches another node next than the first of its traversal: the i-th of
\* the nodes still to dispatch is brought to the front
Reorder ==
  /\ ~fault
  /\ previous # <<>>
  /\ InTraversalOrder
  /\ \E i \in 2..Len(todo) :
       todo' = <<todo[i]>> \o SubSeq(todo, 1, i - 1) \o SubSeq(todo, i + 1, Len(todo))
  /\ UNCHANGED <<tree, rule, reports, fault, previous>>

\* <p>{e} hello world</p> for the slot expressions e, and functions with a
\* function declared in their body
InitAnyOrder ==
  /\ \/ /\ \E e \in SlotExpressions :
             tree = JSXElement(<<JSXExpressionContainer(e), JSXTextNode(TextHello)>>)
        /\ rule = CondRule
     \/ /\ \E id \in FunctionIds, kind \in {"FunctionUpper", "FunctionLower"} :
             tree = FunctionDeclarationNode(id, BlockStatement(<<ReturnA, Wrap(kind, ReturnA)>>))
        /\ rule \in ReturnRules
  /\ previous = <<>>
  /\ todo = Preorder(tree, <<>>, Listeners(rule))
  /\ reports = <<>>
  /\ fault = FALSE

NextAnyOrder == Next \/ Rerun \/ Reorder

\* runs of a rule over one tree, the host dispatching the nodes in any order
SpecAnyOrder == InitAnyOrder /\ [][NextAnyOrder]_vars

\* ------------------------------------------------- vocabulary of the claims

\* the nodes of the linted tree whose type is one of types
PathsOfType(types) ==
  LET found == Preorder(tree, <<>>, types) IN {found[i] : i \in 1..Len(found)}

\* the host has already invoked the listener of the node
Visited(path) == \A i \in 1..Len(todo) : todo[i] # path

\* a string Literal or JSXText made of one or more whitespace characters only
WhitespaceOnly(n) ==
  /\ n.type \in {"Literal", "JSXText"}
  /\ n.vtype = "string"
  /\ n.value # <<>>
  /\ \A i \in 1..Len(n.value) : n.value[i] \in WhitespaceChars

\* how many diagnostics the run has produced at a node
ReportCount(path) == Cardinality({i \in 1..Len(reports) : reports[i].node = path})

ConditionalTypes == {"ConditionalExpression", "LogicalExpression"}

\* a JSX element (or fragment) has a non-whitespace child besides the one at path
OtherNonWhitespaceChild(path) ==
  \E i \in 1..Len(NodeAt(Parent(path)).kids) :
    /\ Append(Parent(path), i) # path
    /\ ~WhitespaceOnly(NodeAt(Parent(path)).kids[i])

\* the node is a direct operand of a conditional that is the expression of a
\* slot, the slot is a direct child of a JSXElement, and the element has more
\* than one child, one of them besides the slot not whitespace-only
FlaggedPosition(path) ==
  /\ Len(path) >= 3
  /\ TypeAt(Parent(path)) \in ConditionalTypes
  /\ TypeAt(Parent(Parent(path))) = "JSXExpressionContainer"
  /\ TypeAt(Parent(Parent(Parent(path)))) = "JSXElement"
  /\ Len(NodeAt(Parent(Parent(Parent(path)))).kids) > 1
  /\ OtherNonWhitespaceChild(Parent(Parent(path)))

\* ------------------------------------------------------------------ claims

\* C1: a Literal (value not null, not boolean, not whitespace-only) or a
\* TemplateLiteral is reported with 'conditional-text-node' exactly when it is
\* in a flagged position (parent a conditional, which is the expression of a
\* slot, which is a child of a JSXElement that has another non-whitespace
\* child), once its listener has run; in every other position it is not reported.
C1_LiteralReportedExactlyWhenFlagged ==
  \A p \in PathsOfType({"Literal", "TemplateLiteral"}) :
    ( \/ TypeAt(p) = "TemplateLiteral"
      \/ /\ TypeAt(p) = "Literal"
         /\ NodeAt(p).vtype \notin {"null", "boolean"}
         /\ ~WhitespaceOnly(NodeAt(p)) )
    => /\ (p \in Reported("conditional-text-node")) <=> (Visited(p) /\ FlaggedPosition(p))
       /\ \A i \in 1..Len(reports) :
            reports[i].node = p => reports[i].messageId = "conditional-text-node"

\* C1 witness: the run is over; a string Literal and a TemplateLiteral, the two
\* branches of one conditional slot with a sibling, were both reported
C1_Witness ==
  /\ Done
  /\ \E p, q \in PathsOfType({"Literal", "TemplateLiteral"}) :
       /\ TypeAt(p) = "Literal" /\ NodeAt(p).vtype = "string"
       /\ p \in Reported("conditional-text-node")
       /\ TypeAt(q) = "TemplateLiteral" /\ q \in Reported("conditional-text-node")
       /\ Parent(p) = Parent(q)

\* the JSXText at path has a non-whitespace sibling that starts before it and
\* is a slot holding a conditional
PrecededByConditionalSlot(path) ==
  \E i \in 1..Len(NodeAt(Parent(path)).kids) :
    LET sibling == NodeAt(Parent(path)).kids[i] IN
      /\ Start(Append(Parent(path), i)) < Start(path)
      /\ ~WhitespaceOnly(sibling)
      /\ sibling.type = "JSXExpressionContainer"
      /\ sibling.kids[1].type \in ConditionalTypes

\* C2: a JSXText is reported with 'text-node-preceeded-by-conditional' exactly
\* when it is not whitespace-only, its parent has another non-whitespace child,
\* and a non-whitespace sibling starting strictly before it is a slot holding a
\* conditional; static text whose conditional siblings all start after it is
\* never reported.
C2_StaticTextReportedExactlyWhenPreceded ==
  \A p \in PathsOfType({"JSXText"}) :
    TypeAt(p) = "JSXText"
    => /\ (p \in Reported("text-node-preceeded-by-conditional"))
            <=> /\ Visited(p)
                /\ ~WhitespaceOnly(NodeAt(p))
                /\ Len(p) >= 1
                /\ OtherNonWhitespaceChild(p)
                /\ PrecededByConditionalSlot(p)
       /\ \A i \in 1..Len(reports) :
            reports[i].node = p
            => reports[i].messageId = "text-node-preceeded-by-conditional"

\* C2 witness: the run is over; one static text was reported, and in the same
\* tree another static text, followed but not preceded by a conditional slot,
\* was not
C2_Witness ==
  /\ Done
  /\ \E p, q \in PathsOfType({"JSXText"}) :
       /\ TypeAt(p) = "JSXText" /\ p \in Reported("text-node-preceeded-by-conditional")
       /\ TypeAt(q) = "JSXText" /\ ~WhitespaceOnly(NodeAt(q))
       /\ Parent(q) = Parent(p) /\ ReportCount(q) = 0
       /\ \E i \in 1..Len(NodeAt(Parent(q)).kids) :
            /\ Start(Append(Parent(q), i)) > Start(q)
            /\ NodeAt(Parent(q)).kids[i].type = "JSXExpressionContainer"
            /\ NodeAt(Parent(q)).kids[i].kids[1].type \in ConditionalTypes

\* path a is path b or an ancestor of it
IsPrefix(a, b) == Len(a) <= Len(b) /\ SubSeq(b, 1, Len(a)) = a

\* slot is a child of element, holds a conditional, and every other child of
\* element is whitespace-only
SoleConditionalSlot(element, slot) ==
  /\ TypeAt(element) = "JSXElement"
  /\ slot \in ChildPaths(element)
  /\ TypeAt(slot) = "JSXExpressionContainer"
  /\ NodeAt(slot).kids[1].type \in ConditionalTypes
  /\ \A c \in ChildPaths(element) : c # slot => WhitespaceOnly(NodeAt(c))

\* the nodes of a slot: the slot and what is under it, down to (not into) the
\* JSX elements nested in its expression, whose children are their own lists
NodeOfSlot(slot, path) ==
  /\ IsPrefix(slot, path)
  /\ \A k \in (Len(slot) + 1)..(Len(path) - 1) :
       TypeAt(SubSeq(path, 1, k)) \notin {"JSXElement", "JSXFragment"}

\* C3, as claimed: when the only non-whitespace child of a JSXElement is one
\* slot holding a conditional, no node under that slot is reported, whatever
\* the kinds of the branches.
C3_AsClaimed ==
  \A element \in PathsOfType({"JSXElement"}) : \A slot \in ChildPaths(element) :
    SoleConditionalSlot(element, slot)
    => \A i \in 1..Len(reports) : ~IsPrefix(slot, reports[i].node)

\* C3, amended: when the only non-whitespace child of a JSXElement is one slot
\* holding a conditional, the run reports no child of the element and no node
\* of that slot outside the JSX elements and fragments nested in its branches
\* (a nested element's children are judged against their own siblings).
C3_SoleSlotNeverReported ==
  \A element \in PathsOfType({"JSXElement"}) : \A slot \in ChildPaths(element) :
    SoleConditionalSlot(element, slot)
    => \A i \in 1..Len(reports) :
         /\ ~NodeOfSlot(slot, reports[i].node)
         /\ reports[i].node \notin ChildPaths(element)

\* C3 witness: the run is over on an element whose children are a conditional
\* slot and whitespace only, the slot having a string, member-access or call
\* operand
C3_Witness ==
  /\ Done
  /\ \E element \in PathsOfType({"JSXElement"}) : \E slot \in ChildPaths(element) :
       /\ SoleConditionalSlot(element, slot)
       /\ Len(NodeAt(element).kids) > 1
       /\ \E k \in 2..3 :
            /\ k <= Len(NodeAt(slot).kids[1].kids)
            /\ \/ NodeAt(slot).kids[1].kids[k].type \in {"MemberExpression", "CallExpression", "TemplateLiteral"}
               \/ /\ NodeAt(slot).kids[1].kids[k].type = "Literal"
                  /\ NodeAt(slot).kids[1].kids[k].vtype = "string"
                  /\ ~WhitespaceOnly(NodeAt(slot).kids[1].kids[k])

ReadmeAllText ==
  JSXElement(<<JSXExpressionContainer(ConditionalExpression(Val, Foo, Bar)),
               JSXTextNode(TextHello)>>)

\* C5, as claimed: the run over <p>{val ? 'foo' : 'bar'} hello world</p>
\* yields exactly two diagnostics.
C5_AsClaimed ==
  (Done /\ tree = ReadmeAllText) => Len(reports) = 2

\* C5, amended: the run over <p>{val ? 'foo' : 'bar'} hello world</p> yields
\* exactly three diagnostics: 'conditional-text-node' on 'foo' and on 'bar',
\* then 'text-node-preceeded-by-conditional' on the static text.
C5_ThreeDiagnostics ==
  (Done /\ tree = ReadmeAllText)
  => reports = << Report(<<1, 1, 2>>, "conditional-text-node"),
                  Report(<<1, 1, 3>>, "conditional-text-node"),
                  Report(<<2>>, "text-node-preceeded-by-conditional") >>

\* C5 witness: the run over that element is over
C5_Witness == Done /\ tree = ReadmeAllText /\ Len(reports) = 3

\* the node is a branch of the conditional of a flagged slot: the consequent or
\* alternate of a ConditionalExpression, or an operand of a LogicalExpression
FlaggedBranch(path) ==
  /\ FlaggedPosition(path)
  /\ TypeAt(Parent(path)) = "ConditionalExpression" => path[Len(path)] \in {2, 3}

\* the call's callee is a member access whose property is named name
CalleePropertyIs(call, name) ==
  /\ call.type = "CallExpression"
  /\ call.kids[1].type = "MemberExpression"
  /\ call.kids[1].kids[2].type = "Identifier"
  /\ call.kids[1].kids[2].name = name

\* C6, as claimed: once the run is over, every call of toString, and likewise
\* every call of toLocaleString, that is a branch of the conditional of a
\* flagged slot has a 'conditional-text-node' diagnostic located at the call.
C6_AsClaimed ==
  Done =>
    \A p \in PathsOfType({"CallExpression"}) :
      ( /\ \/ CalleePropertyIs(NodeAt(p), NameToString)
           \/ CalleePropertyIs(NodeAt(p), NameToLocaleString)
        /\ FlaggedBranch(p) )
      => p \in Reported("conditional-text-node")

\* C7, as claimed: a call expression is reported only if toString or
\* toLocaleString is the property name of that call's own callee.
C7_AsClaimed ==
  \A i \in 1..Len(reports) :
    TypeAt(reports[i].node) = "CallExpression"
    => \/ CalleePropertyIs(NodeAt(reports[i].node), NameToString)
       \/ CalleePropertyIs(NodeAt(reports[i].node), NameToLocaleString)

\* the node is a value the flagged slot can render: the consequent or alternate
\* of its ConditionalExpression, or the right operand of its LogicalExpression
FlaggedResult(path) ==
  /\ FlaggedPosition(path)
  /\ path[Len(path)] \in {2, 3}

\* C8, as claimed: once the run is over, a one-level property access (val.a)
\* that is a branch of the conditional of a flagged slot is reported, and a
\* two-level access (val.a.b) in that position has no diagnostic on any of
\* its member-expression nodes.
C8_AsClaimed ==
  Done =>
    \A p \in PathsOfType({"MemberExpression"}) :
      (TypeAt(p) = "MemberExpression" /\ FlaggedResult(p))
      => /\ NodeAt(p).kids[1].type = "Identifier"
              => p \in Reported("conditional-text-node")
         /\ NodeAt(p).kids[1].type = "MemberExpression"
              => ReportCount(p) = 0 /\ ReportCount(Append(p, 1)) = 0

RECURSIVE EnclosingFunction(_)
\* the FunctionDeclaration a node belongs to: the node itself or its nearest
\* FunctionDeclaration ancestor
EnclosingFunction(path) ==
  IF TypeAt(path) = "FunctionDeclaration" \/ path = <<>> THEN path
  ELSE EnclosingFunction(Parent(path))

\* the function declaration is named and its name starts with an upper-case letter
NamedUpperCase(function) ==
  /\ NodeAt(function).kids[1].type = "Identifier"
  /\ NodeAt(function).kids[1].name # <<>>
  /\ \E i \in 1..Len(UpperCase) : UpperCase[i] = NodeAt(function).kids[1].name[1]

\* C9, as claimed: naming gate: every diagnostic of a return-value rule belongs
\* to a function declaration that is named and whose name starts with an
\* upper-case letter; anonymous functions and functions whose name starts with
\* any other character yield no diagnostic.
C9_AsClaimed ==
  rule \in ReturnRules =>
    \A i \in 1..Len(reports) : NamedUpperCase(EnclosingFunction(reports[i].node))

\* a string literal, a numeric literal or a template literal
TextArgument(argument) ==
  \/ argument.type = "TemplateLiteral"
  \/ argument.type = "Literal" /\ argument.vtype \in {"string", "number"}

\* C10, as claimed: in each source variant of the 'return-value-is-text-node'
\* rule, once the run over a component is over, a return statement of the
\* component's body is reported exactly when its argument is a string literal,
\* a numeric literal or a template literal (not for null, a boolean, JSX or
\* any other expression).
C10_AsClaimed ==
  (Done /\ rule \in {RulePart000, RulePart001} /\ NamedUpperCase(<<>>))
  => \A i \in 1..Len(NodeAt(<<2>>).kids) :
       NodeAt(<<2, i>>).type = "ReturnStatement"
       => ( (<<2, i>> \in Reported("return-value-is-text-node"))
            <=> TextArgument(NodeAt(<<2, i>>).kids[1]) )

\* the ReturnStatement at path returns the null literal
ReturnsNull(path) ==
  /\ TypeAt(path) = "ReturnStatement"
  /\ Argument(path).type = "Literal"
  /\ Argument(path).vtype = "null"

\* C11, as claimed: returning null is safe: under no return-value rule, the
\* must-return-JSX rule included, is a diagnostic located at a return statement
\* of a component whose argument is the null literal.
C11_AsClaimed ==
  rule \in ReturnRules =>
    \A p \in PathsOfType({"ReturnStatement"}) :
      (ReturnsNull(p) /\ NamedUpperCase(EnclosingFunction(p))) => ReportCount(p) = 0

\* the statement kinds under which a return statement counts as reachable from
\* a function body: the sub-node at index k of the statement at path q is a
\* statement of a block, the consequent or alternate of an if, the body of a
\* loop, a statement of a case of a switch, or the block, catch body or
\* finalizer of a try
DescendsInto(q, k) ==
  CASE TypeAt(q) \in {"BlockStatement", "SwitchStatement", "SwitchCase"} -> TRUE
    [] TypeAt(q) = "IfStatement" -> k \in {2, 3}
    [] TypeAt(q) \in LoopTypes -> k = 1
    [] TypeAt(q) = "TryStatement" -> k \in {1, 2, 3}
    [] TypeAt(q) = "CatchClause" -> k = 1
    [] OTHER -> FALSE

\* the node at path p is reachable from the function body through those
\* statement kinds only
ReachableFrom(body, p) ==
  /\ IsPrefix(body, p)
  /\ \A k \in Len(body)..(Len(p) - 1) : DescendsInto(SubSeq(p, 1, k), p[k + 1])

\* function Comp() { if (x) { return 'a'; } else { return <span/>; } }
IfElseComponent ==
  FunctionDeclarationNode(IdentifierNode(NameComp), BlockStatement(<<IfElseExample>>))

NestedOperand(path) ==
  /\ Len(path) >= 2
  /\ TypeAt(Parent(path)) \in ConditionalTypes
  /\ TypeAt(Parent(Parent(path))) \in ConditionalTypes

\* C14: nested ternary limitation: no diagnostic is located at an operand of a
\* conditional that is itself an operand of another conditional, also when the
\* slot has non-whitespace siblings; every 'conditional-text-node' diagnostic
\* is located at an operand of the conditional that is the slot's expression.
C14_NestedOperandNeverReported ==
  \A i \in 1..Len(reports) :
    /\ ~NestedOperand(reports[i].node)
    /\ reports[i].messageId = "conditional-text-node"
       => /\ Len(reports[i].node) >= 2
          /\ TypeAt(Parent(reports[i].node)) \in ConditionalTypes
          /\ TypeAt(Parent(Parent(reports[i].node))) = "JSXExpressionContainer"

\* C14 witness: the run is over; the slot, a child of a JSXElement with a
\* non-whitespace sibling, holds a conditional one of whose branches is a
\* conditional with a string, template, member-access or toLocaleString-call
\* branch; the run reported something, and nothing at that nested branch
C14_Witness ==
  /\ Done
  /\ reports # <<>>
  /\ \E p \in PathsOfType({"Literal", "TemplateLiteral", "MemberExpression", "CallExpression"}) :
       /\ NestedOperand(p)
       /\ p[Len(p)] \in {2, 3}
       /\ FlaggedPosition(Parent(p))
       /\ \/ TypeAt(p) \in {"TemplateLiteral", "MemberExpression"}
          \/ TypeAt(p) = "Literal" /\ NodeAt(p).vtype = "string" /\ ~WhitespaceOnly(NodeAt(p))
          \/ CalleePropertyIs(NodeAt(p), NameToLocaleString)
       /\ ReportCount(p) = 0

\* the rules whose walker is the recursion over blocks, ifs, loops, switches
\* and tries that reports as it goes (part_003 is a draft whose search returns
\* one statement and reports none)
WalkerRules == {RulePart000, RulePart001, RulePart004, RuleNoTextNodes, RuleReturnJsx}

\* the rule walks the body of the function declaration (part_004 walks every
\* function that has a body, the others the components)
WalksBodyOf(r, function) ==
  /\ TypeAt(function) = "FunctionDeclaration"
  /\ NodeAt(function).kids[2].type # "None"
  /\ r # RulePart004 => isFunctionComponent(function)

HasAncestorOfType(path, type) ==
  \E k \in 0..(Len(path) - 1) : TypeAt(SubSeq(path, 1, k)) = type

RECURSIVE OwnerFunction(_)
\* the function a statement belongs to: its nearest ancestor that is a
\* function declaration or an arrow function (the root when there is none)
OwnerFunction(path) ==
  IF path = <<>> THEN path
  ELSE IF TypeAt(Parent(path)) \in {"FunctionDeclaration", "ArrowFunctionExpression"}
  THEN Parent(path)
  ELSE OwnerFunction(Parent(path))

\* C16, as claimed: no descent into nested functions: under every return-value
\* rule, a return statement that belongs to a function inside the linted
\* function's body has a diagnostic only if that inner function is a function
\* declaration, its own FunctionDeclaration listener has run, and it passes
\* the naming gate.
C16_AsClaimed ==
  rule \in ReturnRules =>
    \A i \in 1..Len(reports) :
      LET p == reports[i].node IN
        (TypeAt(p) = "ReturnStatement" /\ OwnerFunction(p) # <<>>)
        => /\ TypeAt(OwnerFunction(p)) = "FunctionDeclaration"
           /\ Visited(OwnerFunction(p))
           /\ isFunctionComponent(OwnerFunction(p))

\* the rules against returned text: every return-value rule but
\* react-components-return-jsx
TextNodeRules == ReturnRules \ {RuleReturnJsx}

\* the return statement has no argument, or one that is no literal
ReturnsNonLiteral(path) ==
  Argument(path).type \notin {"Literal", "TemplateLiteral"}

\* C17, as claimed: under every rule against returned text, no node is the
\* location of two diagnostics of a run, every diagnostic is located at a
\* ReturnStatement (never at its argument or another node), and the run over
\* a function with no return statement, or whose return statements all have
\* no literal argument, yields no diagnostic.
C17_AsClaimed ==
  rule \in TextNodeRules =>
    /\ \A i \in 1..Len(reports) :
         /\ TypeAt(reports[i].node) = "ReturnStatement"
         /\ ReportCount(reports[i].node) = 1
    /\ (\A p \in PathsOfType({"ReturnStatement"}) : ReturnsNonLiteral(p))
       => reports = <<>>

\* the node is the test of a ConditionalExpression or the left operand of a
\* LogicalExpression
ConditionPosition(path) ==
  /\ Len(path) >= 1
  /\ TypeAt(Parent(path)) \in ConditionalTypes
  /\ path[Len(path)] = 1

\* C18: member-access condition guard: no diagnostic is located at a
\* MemberExpression that is the test of a ConditionalExpression, the left
\* operand of a LogicalExpression, or an operand of a BinaryExpression that is
\* such a test or left operand, also when the slot is a child of a JSXElement
\* with non-whitespace siblings.
C18_MemberConditionNeverReported ==
  \A p \in PathsOfType({"MemberExpression"}) :
    ( \/ ConditionPosition(p)
      \/ /\ Len(p) >= 2
         /\ TypeAt(Parent(p)) = "BinaryExpression"
         /\ ConditionPosition(Parent(p)) )
    => ReportCount(p) = 0

\* C18 witness: the run is over on a tree whose flagged slot has a member
\* access as the test (or left operand) of its conditional
C18_Witness ==
  /\ Done
  /\ \E p \in PathsOfType({"MemberExpression"}) :
       /\ ConditionPosition(p)
       /\ FlaggedPosition(p)
       /\ ReportCount(p) = 0

\* C19, as claimed: condition-test positions are excluded for every matcher:
\* no diagnostic is located at a Literal, a TemplateLiteral or a call of
\* toString / toLocaleString that is the test of a ConditionalExpression or
\* the left operand of a LogicalExpression, also when the slot has
\* non-whitespace siblings.
C19_AsClaimed ==
  \A p \in PathsOfType({"Literal", "TemplateLiteral", "CallExpression"}) :
    ( /\ ConditionPosition(p)
      /\ \/ TypeAt(p) \in {"Literal", "TemplateLiteral"}
         \/ CalleePropertyIs(NodeAt(p), NameToString)
         \/ CalleePropertyIs(NodeAt(p), NameToLocaleString) )
    => ReportCount(p) = 0

\* C20, as claimed: in one run of the conditional-sibling rule no node is the
\* location of two diagnostics; in particular a call expression is reported
\* at most once, however many identifiers named toString / toLocaleString
\* occur beneath it.
C20_AsClaimed ==
  rule = CondRule =>
    \A p \in PathsOfType({"Literal", "TemplateLiteral", "JSXText",
                          "MemberExpression", "CallExpression"}) :
      ReportCount(p) <= 1

\* C21, as claimed: missing sub-nodes are a no-match, never a fault: on a tree
\* in which an expected sub-node is absent (function body, statements of a
\* block, consequent or alternate of an if, body of a loop, handler or
\* finalizer of a try, argument of a return), no listener of a return-value
\* rule raises.
C21_AsClaimed ==
  rule \in ReturnRules => ~fault

\* how often a diagnostic occurs among the diagnostics of a run
Occurrences(run, diagnostic) ==
  Cardinality({i \in 1..Len(run) : run[i] = diagnostic})

\* two runs produced the same multiset of diagnostics
SameDiagnostics(a, b) ==
  /\ Len(a) = Len(b)
  /\ \A i \in 1..Len(a) : Occurrences(a, a[i]) = Occurrences(b, a[i])

\* C22: order independence: whatever the order in which the host invokes the
\* listeners on the nodes of a tree, a finished run of a rule has produced the
\* same multiset of diagnostics as every earlier run over the tree.
C22_AnyOrderSameDiagnostics ==
  Done => \A k \in 1..Len(previous) : SameDiagnostics(reports, previous[k])

\* C22 witness: two runs in different orders are over: the same diagnostics,
\* three or more, were produced in another order
C22_Witness ==
  /\ Done
  /\ previous # <<>>
  /\ Len(reports) >= 3
  /\ reports # previous[1]
  /\ SameDiagnostics(reports, previous[1])

====
